---------------------------- MODULE Spec2Model ----------------------------
(***************************************************************************)
(* Model of copy_script.py: copying every blob of a source storage account *)
(* to a destination account through a local staging directory.             *)
(*                                                                         *)
(*   get_hierarchy        lists the source account into a Hierarchy        *)
(*   download_blobs       stages every blob not yet staged, then pickles   *)
(*                        the Hierarchy in a finally block                 *)
(*   open_hierarchy_local unpickles the Hierarchy in a later process       *)
(*   upload_blobs         uploads every staged blob not yet uploaded       *)
(*                                                                         *)
(* A Hierarchy is a Python dict of dicts, kept in insertion order; it is   *)
(* modelled as a sequence of containers, each a sequence of BlobInfo       *)
(* records.  Paths are sequences of path components, os.path.join appends  *)
(* one component.  The two storage accounts and the local file system are  *)
(* the environment: every call into them either succeeds or fails, and a   *)
(* KeyboardInterrupt is one more way for a call to fail.                   *)
(***************************************************************************)
EXTENDS Integers, Sequences, FiniteSets, TLC

(***************************************************************************)
(* Bounds of the model.                                                    *)
(***************************************************************************)
MaxContainers == 2
MaxBlobs == 3
MaxSize == 1

(***************************************************************************)
(* Names.  Python's None is the string "None".                             *)
(***************************************************************************)
None == "None"
ContainerNames == <<"c1", "c2", "c3">>
BlobNames == <<"b1", "b2", "b3", "b4">>
FILE_WITH_HIERARCHY_NAME == "hierarchy.pickle"
Root1 == <<"save-blobs-2">>
Root2 == <<"save-blobs-3">>

(***************************************************************************)
(* azure.storage.blob.BlobProperties as list_blobs yields it.  The         *)
(* attributes the script passes through without reading them depend on the *)
(* blob's name only: the first blob of a container is a block blob, the    *)
(* others are page blobs.                                                  *)
(***************************************************************************)
KindOf(n) == IF n = BlobNames[1] THEN "BlockBlob" ELSE "PageBlob"
MetaOf(n) == IF n = BlobNames[1] THEN <<>> ELSE <<<<"owner", n>>>>
TypeOf(n) == IF n = BlobNames[1] THEN "text/plain" ELSE "application/octet-stream"

BlobProperties(n, deleted, size, md5) ==
    [name |-> n,
     deleted |-> deleted,
     size |-> size,
     blob_type |-> KindOf(n),
     metadata |-> MetaOf(n),
     content_settings |-> [content_type |-> TypeOf(n), content_md5 |-> md5]]

(***************************************************************************)
(* What list_blobs can yield for a name: any deletion mark, size and hash. *)
(***************************************************************************)
AnyBlob(n) ==
    {BlobProperties(n, d, s, h) : d \in BOOLEAN, s \in 0..MaxSize, h \in {None, "md5"}}

(***************************************************************************)
(* The blobs of the copy runs: the first blob of a container is a          *)
(* zero-length object with a hash, the others are non-empty objects        *)
(* without one, and each may instead be a zero-length directory marker.    *)
(***************************************************************************)
CopyBlob(n) ==
    {BlobProperties(n, FALSE, 0, None),
     IF n = BlobNames[1] THEN BlobProperties(n, FALSE, 0, "md5")
                         ELSE BlobProperties(n, FALSE, MaxSize, None)}

ListedBlob(copy, n) == IF copy THEN CopyBlob(n) ELSE AnyBlob(n)

(***************************************************************************)
(* What list_blobs can yield for a container: the blobs named              *)
(* BlobNames[i..j], in order.                                              *)
(***************************************************************************)
RECURSIVE BlobListings(_, _, _)
BlobListings(copy, i, j) ==
    IF i > j THEN {<<>>}
    ELSE {<<b>> \o rest : b \in ListedBlob(copy, BlobNames[i]),
                          rest \in BlobListings(copy, i + 1, j)}

(***************************************************************************)
(* What list_containers and list_blobs can yield for an account: the       *)
(* containers named ContainerNames[i..k], in order, holding at most        *)
(* `budget` blobs together.                                                *)
(***************************************************************************)
RECURSIVE ContainerListings(_, _, _, _)
ContainerListings(copy, i, k, budget) ==
    IF i > k THEN {<<>>}
    ELSE UNION {{<<[name |-> ContainerNames[i], blobs |-> blobs]>> \o rest :
                    blobs \in BlobListings(copy, 1, j),
                    rest \in ContainerListings(copy, i + 1, k, budget - j)} :
                j \in 0..budget}

Listings(copy) == UNION {ContainerListings(copy, 1, k, MaxBlobs) : k \in 0..MaxContainers}

(***************************************************************************)
(* State.                                                                  *)
(*   source  what the source account lists                                 *)
(*   roots   the staging roots the runs may be given                       *)
(*   pc      "start": nothing enumerated yet; "idle": a process holds hier *)
(*           and runs no pass; "download", "finally": inside               *)
(*           download_blobs; "upload": inside upload_blobs; "dead": the    *)
(*           process has ended, the next run of the script has not begun   *)
(*   hier    blobs_by_container of the running process; of the process     *)
(*           that has ended, what it held last (nothing reads it)          *)
(*   loaded  hier was read by open_hierarchy_local, not by get_hierarchy   *)
(*   root    local_storage_dir of the running pass                         *)
(*   create  create_containers of the running pass                         *)
(*   ci, bi  the container and the blob the pass's loops stand at          *)
(*   exc     an exception is pending in download_blobs' try block          *)
(*   dirs    the directories of the local file system                      *)
(*   files   the files of the local file system: path -> content           *)
(*   dst     the destination account: its containers and its blobs         *)
(*   log     the calls the running (or last) pass made, in order           *)
(*   reqs    the upload_blob requests the running (or last) pass issued    *)
(*   exit    how the last pass ended: "none", "return" or "raise"          *)
(***************************************************************************)
VARIABLES source, roots, pc, hier, loaded, root, create, ci, bi, exc,
          dirs, files, dst, log, reqs, exit

vars == <<source, roots, pc, hier, loaded, root, create, ci, bi, exc,
          dirs, files, dst, log, reqs, exit>>

(***************************************************************************)
(* BlobInfo (lines 48-66).  data_local_path is None until the blob is      *)
(* staged; None and the empty string are both falsy, both are NoPath.      *)
(***************************************************************************)
NoPath == <<>>

BlobInfo(properties) ==
    [properties |-> properties, data_local_path |-> NoPath, uploaded |-> FALSE]

\* A bug for C2: the upload flag is read where the path should be.
is_downloaded_by_flag(blob) == blob.uploaded

is_downloaded(blob) == blob.data_local_path # NoPath

is_uploaded(blob) == blob.uploaded

(***************************************************************************)
(* os.path.join(base, name).                                               *)
(***************************************************************************)
PathJoin(base, name) == Append(base, name)

(***************************************************************************)
(* get_hierarchy (lines 91-114).  The filter of line 103; the logging call *)
(* of line 109 reads blobs_by_container[container.name], and the           *)
(* defaultdict then holds every listed container, also one with no blob.   *)
(***************************************************************************)
\* A bug for C10: the hash is not read.
IncludeBlobBySize(blob) == ~blob.deleted /\ blob.size # 0

IncludeBlob(blob) ==
    ~blob.deleted /\ (blob.size # 0 \/ blob.content_settings.content_md5 # None)

MapBlobInfo(blobs) == [j \in 1..Len(blobs) |-> BlobInfo(blobs[j])]

get_hierarchy(listing) ==
    [i \in 1..Len(listing) |->
        [name |-> listing[i].name,
         blobs |-> MapBlobInfo(SelectSeq(listing[i].blobs, IncludeBlob))]]

(***************************************************************************)
(* The bytes of a source blob, and the source's download stream.           *)
(***************************************************************************)
Content(c, blob) == [k \in 1..blob.properties.size |-> <<c, blob.properties.name, k>>]

(***************************************************************************)
(* pickle.dump and pickle.load of a Hierarchy (lines 142, 151): a header,  *)
(* one frame per container and per BlobInfo, and the STOP opcode.  A file  *)
(* that does not end with STOP does not load.                              *)
(***************************************************************************)
\* A bug for C3: the BlobInfo is pickled as it was constructed.
DumpBlobInfoAsNew(blob) ==
    <<"BlobInfo", blob.properties, NoPath, FALSE>>

DumpBlobInfo(blob) ==
    <<"BlobInfo", blob.properties, blob.data_local_path, blob.uploaded>>

DumpContainer(c) ==
    <<<<"dict", c.name, Len(c.blobs)>>>> \o [j \in 1..Len(c.blobs) |-> DumpBlobInfo(c.blobs[j])]

RECURSIVE DumpFrom(_, _)
DumpFrom(h, i) ==
    IF i > Len(h) THEN <<>> ELSE DumpContainer(h[i]) \o DumpFrom(h, i + 1)

PickleDump(h) == <<<<"PROTO", Len(h)>>>> \o DumpFrom(h, 1) \o <<<<"STOP">>>>

Loadable(bytes) == Len(bytes) > 0 /\ bytes[Len(bytes)] = <<"STOP">>

\* A bug for C12: the upload flag is not read back.
LoadBlobInfoNotUploaded(frame) ==
    [properties |-> frame[2], data_local_path |-> frame[3], uploaded |-> FALSE]

LoadBlobInfo(frame) ==
    [properties |-> frame[2], data_local_path |-> frame[3], uploaded |-> frame[4]]

RECURSIVE LoadFrom(_, _, _)
LoadFrom(bytes, at, n) ==
    IF n = 0 THEN <<>>
    ELSE LET count == bytes[at][3]
         IN  <<[name |-> bytes[at][2],
                blobs |-> [j \in 1..count |-> LoadBlobInfo(bytes[at + j])]]>>
             \o LoadFrom(bytes, at + count + 1, n - 1)

PickleLoad(bytes) == LoadFrom(bytes, 2, bytes[1][2])

(***************************************************************************)
(* The local file system.                                                  *)
(***************************************************************************)
FileExists(path) == path \in DOMAIN files

WriteFile(fs, path, bytes) ==
    [p \in DOMAIN fs \cup {path} |-> IF p = path THEN bytes ELSE fs[p]]

CheckpointPath(r) == PathJoin(r, FILE_WITH_HIERARCHY_NAME)

(***************************************************************************)
(* The running pass's blob, its container and its paths.                   *)
(***************************************************************************)
AtBlob == ci <= Len(hier) /\ bi <= Len(hier[ci].blobs)

CurContainer == hier[ci].name

CurBlob == hier[ci].blobs[bi]

BasePath == PathJoin(root, CurContainer)

FilePath == PathJoin(BasePath, CurBlob.properties.name)

Event(op, res) == [op |-> op, c |-> CurContainer, n |-> CurBlob.properties.name, res |-> res]

PassEvent(op, res) == [op |-> op, c |-> None, n |-> None, res |-> res]

EmptyStore == [containers |-> {}, blobs |-> <<>>]


(***************************************************************************)
(* The loops of both passes (lines 127-130, 164-167) visit the blobs in    *)
(* dict order: the first blob at or after (i, j), or the end of the        *)
(* Hierarchy at <<Len(h) + 1, 1>>.                                         *)
(***************************************************************************)
RECURSIVE NextPos(_, _, _)
NextPos(h, i, j) ==
    IF i > Len(h) THEN <<Len(h) + 1, 1>>
    ELSE IF j <= Len(h[i].blobs) THEN <<i, j>>
    ELSE NextPos(h, i + 1, 1)

Advance ==
    /\ ci' = NextPos(hier, ci, bi + 1)[1]
    /\ bi' = NextPos(hier, ci, bi + 1)[2]

Rewind ==
    /\ ci' = NextPos(hier, 1, 1)[1]
    /\ bi' = NextPos(hier, 1, 1)[2]

(***************************************************************************)
(* Initial states: nothing is enumerated, the staging root may or may not  *)
(* exist yet, the destination account holds any of the source's            *)
(* containers and no blob.                                                 *)
(***************************************************************************)
StartState ==
    /\ pc = "start"
    /\ hier = <<>>
    /\ loaded = FALSE
    /\ root = Root1
    /\ create = FALSE
    /\ ci = 1
    /\ bi = 1
    /\ exc = FALSE
    /\ files = <<>>
    /\ log = <<>>
    /\ reqs = <<>>
    /\ exit = "none"

Init ==
    /\ source \in Listings(TRUE)
    /\ roots = {Root1}
    /\ dirs \in {{}, {Root1}}
    /\ dst \in [containers : {{}, {source[i].name : i \in 1..Len(source)}}, blobs : {<<>>}]
    /\ StartState

(***************************************************************************)
(* hierarchy = get_hierarchy(account_name, account_key)  (line 193), at    *)
(* the start of every run of the script: the first run, and a later run    *)
(* that finds the checkpoint and the staged files of the runs before it.   *)
(* The Hierarchy it returns is new: no path, no flag.                      *)
(***************************************************************************)
GetHierarchy ==
    /\ pc \in {"start", "dead"}
    /\ hier' = get_hierarchy(source)
    /\ pc' = "idle"
    /\ loaded' = FALSE
    /\ UNCHANGED <<source, roots, root, create, ci, bi, exc, dirs, files, dst, log, reqs, exit>>

(***************************************************************************)
(* download_blobs (lines 117-144).                                         *)
(***************************************************************************)
\* A bug for C19: download_blobs lists the source account again.
StartDownloadRelisting ==
    /\ pc = "idle"
    /\ \E r \in roots : root' = r
    /\ log' = <<>>
    /\ reqs' = <<>>
    /\ exit' = "none"
    /\ hier' = get_hierarchy(source)
    /\ pc' = "download"
    /\ exc' = FALSE
    /\ ci' = NextPos(hier', 1, 1)[1]
    /\ bi' = NextPos(hier', 1, 1)[2]
    /\ UNCHANGED <<source, roots, loaded, create, dirs, files, dst>>

\* lines 123-126: the try block is entered; creating the client may raise.
StartDownload ==
    /\ pc = "idle"
    /\ \E r \in roots : root' = r
    /\ log' = <<>>
    /\ reqs' = <<>>
    /\ exit' = "none"
    /\ \/ pc' = "download" /\ exc' = FALSE /\ Rewind
       \/ pc' = "finally" /\ exc' = TRUE /\ UNCHANGED <<ci, bi>>
    /\ UNCHANGED <<source, roots, hier, loaded, create, dirs, files, dst>>

\* the function returns or raises: its locals are gone
Leave ==
    /\ pc' = "idle"
    /\ create' = FALSE
    /\ ci' = 1
    /\ bi' = 1

\* lines 127-131 with nothing to download (a blob that is downloaded
\* already, or the end of the loops): a KeyboardInterrupt leaves the try
\* block for the finally block.
DownloadInterrupt ==
    /\ pc' = "finally"
    /\ exc' = TRUE
    /\ ci' = 1
    /\ bi' = 1

\* line 131: a blob that is downloaded already is passed over.
DownloadSkip ==
    /\ pc = "download"
    /\ AtBlob
    /\ is_downloaded(CurBlob)
    /\ \/ Advance /\ UNCHANGED <<pc, exc>>
       \/ DownloadInterrupt
    /\ UNCHANGED <<source, roots, hier, loaded, root, create, dirs, files, dst, log, reqs, exit>>

\* line 70: Path(file_path).parent.mkdir(parents=True, exist_ok=True)
MakeDirs == dirs \cup {root, BasePath}

\* A bug for C11: the path is not recorded.
SetLocalPathDropped(h, i, j, path) == h

\* line 75: self.data_local_path = file_path
SetLocalPath(h, i, j, path) == [h EXCEPT ![i].blobs[j].data_local_path = path]

\* The loop body is left before line 71 is reached (a KeyboardInterrupt,
\* or mkdir raising): line 70 makes the staging root, then the container's
\* directory, and has made none of them, the first, or both.
DownloadRaiseEarly ==
    /\ dirs' \in {dirs, dirs \cup {root}, MakeDirs}
    /\ pc' = "finally"
    /\ exc' = TRUE
    /\ ci' = 1
    /\ bi' = 1
    /\ UNCHANGED <<hier, files, log>>

\* A bug for C16: the failure is swallowed and the loop goes on.
DownloadRaiseCallSwallowed ==
    /\ dirs' = MakeDirs
    /\ log' = Append(log, Event("download_blob", "raise"))
    /\ Advance
    /\ UNCHANGED <<pc, exc, hier, files>>

\* line 71: container_client.download_blob raises.
DownloadRaiseCall ==
    /\ dirs' = MakeDirs
    /\ log' = Append(log, Event("download_blob", "raise"))
    /\ pc' = "finally"
    /\ exc' = TRUE
    /\ ci' = 1
    /\ bi' = 1
    /\ UNCHANGED <<hier, files>>

\* lines 72-75 after download_blob has returned: a KeyboardInterrupt
\* before the open leaves the files as they are; open(file_path, 'wb')
\* truncates the file, k chunks are written, then the stream (or a
\* KeyboardInterrupt) raises; the assignment of line 75 is not reached.
DownloadRaiseStream ==
    /\ \/ files' = files
       \/ \E k \in 0..CurBlob.properties.size :
             files' = WriteFile(files, FilePath, SubSeq(Content(CurContainer, CurBlob), 1, k))
    /\ dirs' = MakeDirs
    /\ log' = Append(log, Event("download_blob", "stream"))
    /\ pc' = "finally"
    /\ exc' = TRUE
    /\ ci' = 1
    /\ bi' = 1
    /\ UNCHANGED hier

\* lines 69-75 run to the end.
DownloadOk ==
    /\ files' = WriteFile(files, FilePath, Content(CurContainer, CurBlob))
    /\ dirs' = MakeDirs
    /\ log' = Append(log, Event("download_blob", "ok"))
    /\ hier' = SetLocalPath(hier, ci, bi, FilePath)
    /\ Advance
    /\ UNCHANGED <<pc, exc>>

\* lines 131-135
DownloadBlob ==
    /\ pc = "download"
    /\ AtBlob
    /\ ~is_downloaded(CurBlob)
    /\ \/ DownloadRaiseEarly
       \/ DownloadRaiseCall
       \/ DownloadRaiseStream
       \/ DownloadOk
    /\ UNCHANGED <<source, roots, loaded, root, create, dst, reqs, exit>>

\* the loops of lines 127-135 end, or are left by a KeyboardInterrupt
\* with no blob left to reach
DownloadLoopEnd ==
    /\ pc = "download"
    /\ ~AtBlob
    /\ \/ pc' = "finally" /\ ci' = 1 /\ bi' = 1 /\ UNCHANGED exc
       \/ DownloadInterrupt
    /\ UNCHANGED <<source, roots, hier, loaded, root, create, dirs, files, dst, log, reqs, exit>>

\* lines 138-142: open(hierarchy_filename, 'wb') needs the staging root to
\* exist and truncates the file; pickle.dump writes it, or raises and
\* leaves a part of it written.  The open raises FileNotFoundError when
\* the staging root is missing, and a KeyboardInterrupt may arrive at the
\* open before the file is touched: the file, if any, stays as it was.
SaveRaiseOpen ==
    /\ log' = Append(log, PassEvent("open", "raise"))
    /\ exit' = "raise"
    /\ UNCHANGED files

SaveRaiseDump ==
    /\ root \in dirs
    /\ \E k \in {0, Len(PickleDump(hier)) - 1} :
          files' = WriteFile(files, CheckpointPath(root), SubSeq(PickleDump(hier), 1, k))
    /\ log' = Append(log, PassEvent("pickle.dump", "raise"))
    /\ exit' = "raise"

\* lines 141-144: the checkpoint is written; the pending exception is
\* raised again, or a KeyboardInterrupt arrives after pickle.dump (at the
\* end of the with block or at line 144), or the function returns.
SaveOk ==
    /\ root \in dirs
    /\ files' = WriteFile(files, CheckpointPath(root), PickleDump(hier))
    /\ log' = Append(log, PassEvent("pickle.dump", "ok"))
    /\ exit' \in IF exc THEN {"raise"} ELSE {"return", "raise"}

\* lines 136-144: the finally block, then the pending exception is raised
\* again or the function returns.
DownloadFinally ==
    /\ pc = "finally"
    /\ \/ SaveRaiseOpen
       \/ SaveRaiseDump
       \/ SaveOk
    /\ Leave
    /\ exc' = FALSE
    /\ UNCHANGED <<source, roots, hier, loaded, root, dirs, dst, reqs>>


(***************************************************************************)
(* BlobInfo.upload (lines 77-88) and the destination account.              *)
(***************************************************************************)
\* line 84: length=self.properties.size or None.  An absent length is <<>>.
LengthArg(size) == IF size # 0 THEN <<size>> ELSE <<>>

\* lines 80-87: the arguments of container_client.upload_blob
UploadRequest(blob, data) ==
    [name |-> blob.properties.name,
     data |-> data,
     blob_type |-> blob.properties.blob_type,
     length |-> LengthArg(blob.properties.size),
     metadata |-> blob.properties.metadata,
     content_settings |-> blob.properties.content_settings]

\* What the destination holds after a call it has accepted: the first
\* `length` bytes of the data, or all of the data when no length is given
\* or the data is shorter than `length`.
StoredObject(req) ==
    [content |-> IF req.length = <<>> \/ Len(req.data) <= req.length[1]
                 THEN req.data
                 ELSE SubSeq(req.data, 1, req.length[1]),
     blob_type |-> req.blob_type,
     metadata |-> req.metadata,
     content_settings |-> req.content_settings]

\* upload_blob is called without overwrite=True: a blob that exists is not
\* written again.  Lines 80-87 compare the file with nothing: whether a call
\* whose data is shorter than `length` is answered by an error or by a
\* stored object is the destination's choice, and both are outcomes of the
\* call (UploadError always holds "error").
StoreAccepts(store, c, req) ==
    /\ c \in store.containers
    /\ <<c, req.name>> \notin DOMAIN store.blobs

StorePut(store, c, req) ==
    [store EXCEPT !.blobs = WriteFile(store.blobs, <<c, req.name>>, StoredObject(req))]

\* A bug for C8: the record is replaced by a new BlobInfo that is uploaded.
SetUploadedFresh(h, i, j) ==
    [h EXCEPT ![i].blobs[j] = [BlobInfo(@.properties) EXCEPT !.uploaded = TRUE]]

\* line 88: self.uploaded = True
SetUploaded(h, i, j) == [h EXCEPT ![i].blobs[j].uploaded = TRUE]

CurRequest == UploadRequest(CurBlob, files[FilePath])

(***************************************************************************)
(* upload_blobs (lines 154-180).                                           *)
(***************************************************************************)
\* lines 161-163: creating the client may raise.
StartUpload ==
    /\ pc = "idle"
    /\ \E r \in roots : root' = r
    /\ log' = <<>>
    /\ reqs' = <<>>
    /\ \/ pc' = "upload" /\ exit' = "none" /\ create' \in BOOLEAN /\ Rewind
       \/ Leave /\ exit' = "raise"
    /\ UNCHANGED <<source, roots, hier, loaded, exc, dirs, files, dst>>

\* A bug for C17: the path is not read.
ShouldUploadNotUploaded(blob) == ~is_uploaded(blob)

\* A bug for C5: the upload flag is not read.
ShouldUploadStaged(blob) == is_downloaded(blob)

\* line 168
ShouldUpload(blob) == is_downloaded(blob) /\ ~is_uploaded(blob)

\* the exception leaves upload_blobs
Propagate ==
    /\ Leave
    /\ exit' = "raise"
    /\ UNCHANGED hier

\* lines 166-168: a blob that is not staged, or is uploaded already, is
\* passed over, unless a KeyboardInterrupt leaves upload_blobs there.
UploadSkip ==
    /\ pc = "upload"
    /\ AtBlob
    /\ ~ShouldUpload(CurBlob)
    /\ \/ Advance /\ UNCHANGED <<pc, hier, create, exit>>
       \/ Propagate
    /\ UNCHANGED <<source, roots, loaded, root, exc, dirs, files, dst, log, reqs>>

\* lines 169-171 and 78-79: a KeyboardInterrupt leaves the loop body
\* before upload_blob is called
UploadInterrupt ==
    /\ Propagate
    /\ UNCHANGED <<dst, log, reqs>>

\* line 79: open(file_path, 'rb') raises FileNotFoundError
UploadNoFile ==
    /\ ~FileExists(FilePath)
    /\ log' = Append(log, Event("open", "FileNotFoundError"))
    /\ Propagate
    /\ UNCHANGED <<dst, reqs>>

\* line 173 returns
UploadOk ==
    /\ FileExists(FilePath)
    /\ StoreAccepts(dst, CurContainer, CurRequest)
    /\ dst' = StorePut(dst, CurContainer, CurRequest)
    /\ reqs' = Append(reqs, CurRequest)
    /\ log' = Append(log, Event("upload_blob", "ok"))
    /\ hier' = SetUploaded(hier, ci, bi)
    /\ Advance
    /\ UNCHANGED <<pc, create, exit>>

\* What upload_blob raises: ContainerNotFound for a missing container,
\* BlobAlreadyExists for a blob that exists, and any other error at any
\* time (the request may then have been carried out all the same).
UploadError(store, c, req) ==
    IF c \notin store.containers THEN {"ContainerNotFound", "error"}
    ELSE IF <<c, req.name>> \in DOMAIN store.blobs THEN {"BlobAlreadyExists", "error"}
    ELSE {"error"}

\* A bug for C7: create_containers is not read.
HandledAnyFlag(err) == err = "ContainerNotFound"

\* lines 174-175
Handled(err) == err = "ContainerNotFound" /\ create

\* line 173 raises and lines 179-180 raise it again; or upload_blob has
\* returned and a KeyboardInterrupt arrives before line 88 is carried out
UploadRaise ==
    /\ FileExists(FilePath)
    /\ \/ /\ \E err \in UploadError(dst, CurContainer, CurRequest) :
                /\ ~Handled(err)
                /\ log' = Append(log, Event("upload_blob", err))
          /\ \/ dst' = dst
             \/ /\ StoreAccepts(dst, CurContainer, CurRequest)
                /\ dst' = StorePut(dst, CurContainer, CurRequest)
       \/ /\ StoreAccepts(dst, CurContainer, CurRequest)
          /\ dst' = StorePut(dst, CurContainer, CurRequest)
          /\ log' = Append(log, Event("upload_blob", "ok"))
    /\ reqs' = Append(reqs, CurRequest)
    /\ Propagate

CreateContainer(store, c) == [store EXCEPT !.containers = @ \cup {c}]

FirstEvents == <<Event("upload_blob", "ContainerNotFound")>>

\* lines 174-176: a KeyboardInterrupt leaves the except block before
\* create_container is called
UploadHandlerInterrupt ==
    /\ FileExists(FilePath)
    /\ Handled("ContainerNotFound")
    /\ CurContainer \notin dst.containers
    /\ log' = log \o FirstEvents
    /\ reqs' = Append(reqs, CurRequest)
    /\ dst' = dst
    /\ Propagate

\* line 177: container_client.create_container() raises; the service may
\* have created the container all the same
UploadCreateRaise ==
    /\ FileExists(FilePath)
    /\ Handled("ContainerNotFound")
    /\ CurContainer \notin dst.containers
    /\ log' = log \o FirstEvents \o <<Event("create_container", "raise")>>
    /\ reqs' = Append(reqs, CurRequest)
    /\ dst' \in {dst, CreateContainer(dst, CurContainer)}
    /\ Propagate

\* lines 176-178: the container is created and the upload is tried again
UploadRetryOk ==
    /\ FileExists(FilePath)
    /\ Handled("ContainerNotFound")
    /\ CurContainer \notin dst.containers
    /\ StoreAccepts(CreateContainer(dst, CurContainer), CurContainer, CurRequest)
    /\ log' = log \o FirstEvents
                  \o <<Event("create_container", "ok"), Event("upload_blob", "ok")>>
    /\ reqs' = reqs \o <<CurRequest, CurRequest>>
    /\ dst' = StorePut(CreateContainer(dst, CurContainer), CurContainer, CurRequest)
    /\ hier' = SetUploaded(hier, ci, bi)
    /\ Advance
    /\ UNCHANGED <<pc, create, exit>>

\* A bug for C6: the failure of the retry is swallowed and the loop goes on.
UploadRetrySwallow ==
    /\ FileExists(FilePath)
    /\ Handled("ContainerNotFound")
    /\ CurContainer \notin dst.containers
    /\ log' = log \o FirstEvents
                  \o <<Event("create_container", "ok"), Event("upload_blob", "error")>>
    /\ dst' = CreateContainer(dst, CurContainer)
    /\ reqs' = reqs \o <<CurRequest, CurRequest>>
    /\ Advance
    /\ UNCHANGED <<pc, hier, create, exit>>

\* line 178 raises: the exception leaves the except block, the container
\* stays created unless it was removed again under the retry, and the
\* request may have been carried out all the same.  A KeyboardInterrupt
\* may arrive before the second upload_blob is called (line 178, lines
\* 78-79), or after it has returned and before line 88 is carried out.
UploadRetryRaise ==
    /\ FileExists(FilePath)
    /\ Handled("ContainerNotFound")
    /\ CurContainer \notin dst.containers
    /\ \/ /\ log' = log \o FirstEvents \o <<Event("create_container", "ok")>>
          /\ dst' = CreateContainer(dst, CurContainer)
          /\ reqs' = Append(reqs, CurRequest)
       \/ /\ log' = log \o FirstEvents
                        \o <<Event("create_container", "ok"), Event("upload_blob", "error")>>
          /\ dst' = CreateContainer(dst, CurContainer)
          /\ reqs' = reqs \o <<CurRequest, CurRequest>>
       \/ /\ \E res \in {"error", "ok"} :
                log' = log \o FirstEvents
                           \o <<Event("create_container", "ok"), Event("upload_blob", res)>>
          /\ StoreAccepts(CreateContainer(dst, CurContainer), CurContainer, CurRequest)
          /\ dst' = StorePut(CreateContainer(dst, CurContainer), CurContainer, CurRequest)
          /\ reqs' = reqs \o <<CurRequest, CurRequest>>
       \/ /\ log' = log \o FirstEvents
                        \o <<Event("create_container", "ok"), Event("upload_blob", "ContainerNotFound")>>
          /\ dst' = dst
          /\ reqs' = reqs \o <<CurRequest, CurRequest>>
    /\ Propagate

\* lines 168-180
UploadBlob ==
    /\ pc = "upload"
    /\ AtBlob
    /\ ShouldUpload(CurBlob)
    /\ \/ UploadInterrupt
       \/ UploadNoFile
       \/ UploadOk
       \/ UploadRaise
       \/ UploadHandlerInterrupt
       \/ UploadCreateRaise
       \/ UploadRetryOk
       \/ UploadRetryRaise
    /\ UNCHANGED <<source, roots, loaded, root, exc, dirs, files>>

\* A bug for C13: upload_blobs saves the Hierarchy before it returns.
UploadLoopEndSaving ==
    /\ pc = "upload"
    /\ ~AtBlob
    /\ Leave
    /\ exit' = "return"
    /\ files' = WriteFile(files, CheckpointPath(root), PickleDump(hier))
    /\ UNCHANGED <<source, roots, hier, loaded, root, exc, dirs, dst, log, reqs>>

\* the loops of lines 164-180 end and upload_blobs returns, or a
\* KeyboardInterrupt leaves it with no blob left to reach
UploadLoopEnd ==
    /\ pc = "upload"
    /\ ~AtBlob
    /\ Leave
    /\ exit' \in {"return", "raise"}
    /\ UNCHANGED <<source, roots, hier, loaded, root, exc, dirs, files, dst, log, reqs>>

(***************************************************************************)
(* The process ends, and blobs_by_container with it; a later process       *)
(* starts from get_hierarchy again (the script as it is written) or from   *)
(* open_hierarchy_local (lines 147-151).                                   *)
(***************************************************************************)
ProcessExit ==
    /\ pc = "idle"
    /\ pc' = "dead"
    /\ root' = Root1
    /\ log' = <<>>
    /\ reqs' = <<>>
    /\ exit' = "none"
    /\ UNCHANGED <<source, roots, hier, loaded, create, ci, bi, exc, dirs, files, dst>>

open_hierarchy_local(r) == PickleLoad(files[CheckpointPath(r)])

CanLoad(r) == FileExists(CheckpointPath(r)) /\ Loadable(files[CheckpointPath(r)])

OpenHierarchyLocal ==
    /\ pc = "dead"
    /\ \E r \in roots :
          /\ CanLoad(r)
          /\ hier' = open_hierarchy_local(r)
    /\ pc' = "idle"
    /\ loaded' = TRUE
    /\ UNCHANGED <<source, roots, root, create, ci, bi, exc, dirs, files, dst, log, reqs, exit>>

Next ==
    \/ GetHierarchy
    \/ StartDownload
    \/ DownloadSkip
    \/ DownloadBlob
    \/ DownloadLoopEnd
    \/ DownloadFinally
    \/ StartUpload
    \/ UploadSkip
    \/ UploadBlob
    \/ UploadLoopEnd
    \/ ProcessExit
    \/ OpenHierarchyLocal

Spec == Init /\ [][Next]_vars

(***************************************************************************)
(* get_hierarchy alone, over every listing of the source account.          *)
(***************************************************************************)
InitEnum ==
    /\ source \in Listings(FALSE)
    /\ roots = {Root1}
    /\ dirs = {}
    /\ dst = EmptyStore
    /\ StartState

NextEnum == GetHierarchy

SpecEnum == InitEnum /\ [][NextEnum]_vars

(***************************************************************************)
(* The same calls, made for ever: some call or step is always taken when   *)
(* one can be.  Which calls are made, and in which order, is the caller's  *)
(* choice.                                                                 *)
(***************************************************************************)
SpecLive == Init /\ [][Next]_vars /\ WF_vars(Next)

(***************************************************************************)
(* The copy runs while the source account changes: after the enumeration a *)
(* blob may be added to a listed container at any time.                    *)
(***************************************************************************)
InitSnap ==
    /\ Init
    /\ Len(source) = 1
    /\ Len(source[1].blobs) < MaxBlobs

SourceAdd ==
    /\ pc # "start"
    /\ \E i \in 1..Len(source) :
          /\ Len(source[i].blobs) < MaxBlobs
          /\ \E b \in CopyBlob(BlobNames[Len(source[i].blobs) + 1]) :
                source' = [source EXCEPT ![i].blobs = Append(@, b)]
    /\ UNCHANGED <<roots, pc, hier, loaded, root, create, ci, bi, exc, dirs, files, dst, log, reqs, exit>>

NextSnap ==
    \/ Next
    \/ SourceAdd

SpecSnap == InitSnap /\ [][NextSnap]_vars

(***************************************************************************)
(* The passes given any of two staging roots (local_storage_dir is a       *)
(* parameter of download_blobs, open_hierarchy_local and upload_blobs).    *)
(***************************************************************************)
InitRoots ==
    /\ source \in ContainerListings(TRUE, 1, 1, MaxBlobs - 2)
    /\ roots = {Root1, Root2}
    /\ dirs \in {{}, {Root1, Root2}}
    /\ dst \in [containers : {{}, {source[i].name : i \in 1..Len(source)}}, blobs : {<<>>}]
    /\ StartState

SpecRoots == InitRoots /\ [][Next]_vars


(***************************************************************************)
(* The claims.                                                             *)
(***************************************************************************)
\* The blobs of a Hierarchy, as <<container index, blob index>>.
Positions(h) == {<<i, j>> \in (1..Len(h)) \X (1..MaxBlobs + 1) : j <= Len(h[i].blobs)}

\* The calls the step has added to the log.
NewEvents == SubSeq(log', Len(log) + 1, Len(log'))

InPass(p) == pc = p /\ AtBlob

\* The step is get_hierarchy returning a new Hierarchy; the step is
\* open_hierarchy_local returning the Hierarchy of the checkpoint.
Enumerates == pc \in {"start", "dead"} /\ pc' = "idle" /\ ~loaded'

Loads == pc = "dead" /\ pc' = "idle" /\ loaded'

\* The step is a save of the finally block that ran to its end.
SaveCompleted == pc = "finally" /\ NewEvents = <<PassEvent("pickle.dump", "ok")>>

\* The identities and the properties of a Hierarchy, without the status.
Snapshot(h) ==
    [i \in 1..Len(h) |->
        [name |-> h[i].name,
         blobs |-> [j \in 1..Len(h[i].blobs) |-> h[i].blobs[j].properties]]]

\* The <<container, blob>> names of a Hierarchy.
Identities(h) ==
    {<<h[pos[1]].name, h[pos[1]].blobs[pos[2]].properties.name>> : pos \in Positions(h)}

\* The paths and the flags of a Hierarchy.
Paths(h) ==
    [i \in 1..Len(h) |-> [j \in 1..Len(h[i].blobs) |-> h[i].blobs[j].data_local_path]]

Flags(h) ==
    [i \in 1..Len(h) |-> [j \in 1..Len(h[i].blobs) |-> h[i].blobs[j].uploaded]]

\* C1: every exit of download_blobs (a return, an exception of the try
\* block raised again) is preceded by a save of the checkpoint, and the
\* checkpoint then holds the Hierarchy as it is in memory at the exit.  A
\* second failure or cancellation inside the save itself, with the staging
\* root in place, is left aside here.
C1_CheckpointOnEveryExit ==
    [][(pc = "finally" /\ pc' = "idle" /\ (root \notin dirs \/ SaveCompleted)) =>
          /\ CheckpointPath(root) \in DOMAIN files'
          /\ files'[CheckpointPath(root)] = PickleDump(hier)]_vars

\* C2: download_blob is called for a blob only when the pass stands at that
\* blob and the blob's data_local_path is unset; a blob whose path is set
\* is passed over (or the pass is cancelled there) without a call and
\* without a write to its file.
C2_DownloadOnlyIfUnset ==
    [][/\ \A k \in 1..Len(NewEvents) :
             NewEvents[k].op = "download_blob" =>
                /\ InPass("download")
                /\ CurBlob.data_local_path = NoPath
                /\ NewEvents[k].c = CurContainer
                /\ NewEvents[k].n = CurBlob.properties.name
       /\ (InPass("download") /\ CurBlob.data_local_path # NoPath) =>
             /\ NewEvents = <<>>
             /\ files' = files
             /\ hier' = hier
             /\ pc' = "download" \/ (pc' = "finally" /\ exc')]_vars

\* C2's case: a pass has passed over the first blob, staged by an earlier
\* pass, and has called download_blob for the second.
C2_Witness ==
    /\ pc = "download"
    /\ Len(hier) >= 1
    /\ Len(hier[1].blobs) >= 2
    /\ hier[1].blobs[1].data_local_path # NoPath
    /\ hier[1].blobs[2].data_local_path # NoPath
    /\ Len(log) = 1
    /\ log[1].n = hier[1].blobs[2].properties.name

\* C3: a download pass that is interrupted and saves its checkpoint leaves
\* a checkpoint that loads to the Hierarchy as the pass left it (the blobs
\* it completed with their path, the others without); nothing but a
\* download pass writes the checkpoint; and a pass of a process that has
\* loaded the checkpoint calls download_blob for a blob without a path (or
\* raises before the call) and does not call it for a blob with one, which
\* it passes over unless it is cancelled there.
C3_Resume ==
    [][/\ (pc = "finally" /\ NewEvents = <<PassEvent("pickle.dump", "ok")>>) =>
             /\ CheckpointPath(root) \in DOMAIN files'
             /\ Loadable(files'[CheckpointPath(root)])
             /\ PickleLoad(files'[CheckpointPath(root)]) = hier
       /\ \A r \in roots :
             (pc # "finally" /\ CheckpointPath(r) \in DOMAIN files) =>
                /\ CheckpointPath(r) \in DOMAIN files'
                /\ files'[CheckpointPath(r)] = files[CheckpointPath(r)]
       /\ Loads =>
             \E r \in roots : /\ CheckpointPath(r) \in DOMAIN files
                              /\ hier' = PickleLoad(files[CheckpointPath(r)])
       /\ (loaded /\ InPass("download")) =>
             IF CurBlob.data_local_path # NoPath
             THEN /\ NewEvents = <<>>
                  /\ files' = files
                  /\ pc' = "download" \/ (pc' = "finally" /\ exc')
             ELSE \/ /\ Len(NewEvents) = 1
                     /\ NewEvents[1].op = "download_blob"
                     /\ NewEvents[1].c = CurContainer
                     /\ NewEvents[1].n = CurBlob.properties.name
                  \/ NewEvents = <<>> /\ pc' = "finally" /\ exc']_vars

\* C3's case: a process that loaded the checkpoint of an interrupted pass
\* (A staged, B not) has passed over A and downloaded B.
C3_Witness ==
    /\ loaded
    /\ pc = "download"
    /\ Len(hier) >= 1
    /\ Len(hier[1].blobs) >= 2
    /\ hier[1].blobs[1].data_local_path # NoPath
    /\ hier[1].blobs[2].data_local_path # NoPath
    /\ log = <<[op |-> "download_blob", c |-> hier[1].name,
                n |-> hier[1].blobs[2].properties.name, res |-> "ok"]>>

\* Every BlobInfo of h with a path has, at that path, a file holding the
\* whole content of its blob.
StagedComplete(h) ==
    \A pos \in Positions(h) :
       LET blob == h[pos[1]].blobs[pos[2]]
       IN  blob.data_local_path # NoPath =>
              /\ blob.data_local_path \in DOMAIN files
              /\ files[blob.data_local_path] = Content(h[pos[1]].name, blob)

\* C4: after every step, a path that is set, in memory or in a checkpoint
\* that loads, names a file holding the blob's whole content; a download
\* that raises in mid-stream leaves the path unset and the part of the
\* file that was written in place; no step removes a file.
C4_PathOnlyAfterStream ==
    [][/\ StagedComplete(hier)'
       /\ \A r \in roots :
             (CheckpointPath(r) \in DOMAIN files' /\ Loadable(files'[CheckpointPath(r)])) =>
                StagedComplete(PickleLoad(files[CheckpointPath(r)]))'
       /\ (InPass("download") /\ NewEvents = <<Event("download_blob", "stream")>>) =>
             /\ hier' = hier
             /\ CurBlob.data_local_path = NoPath
             /\ \/ files' = files
                \/ /\ FilePath \in DOMAIN files'
                   /\ \E k \in 0..CurBlob.properties.size :
                         files'[FilePath] = SubSeq(Content(CurContainer, CurBlob), 1, k)
       /\ DOMAIN files \subseteq DOMAIN files']_vars

\* The blob the upload pass stands at is staged and not uploaded.
DueForUpload == CurBlob.data_local_path # NoPath /\ CurBlob.uploaded = FALSE

\* The step called upload_blob (or opened the staged file) for the blob
\* the pass stands at.
UploadAttempted ==
    /\ Len(NewEvents) >= 1
    /\ NewEvents[1].op \in {"upload_blob", "open"}
    /\ NewEvents[1].c = CurContainer
    /\ NewEvents[1].n = CurBlob.properties.name

LastNewEvent == NewEvents[Len(NewEvents)]

\* The step is a cancellation of the pass with no call for the blob: the
\* pass is left by the exception and nothing else changes.
Cancelled ==
    /\ NewEvents = <<>>
    /\ pc' = "idle"
    /\ exit' = "raise"
    /\ hier' = hier
    /\ dst' = dst
    /\ reqs' = reqs

\* C5: at each blob an upload pass reaches, an upload is attempted iff the
\* blob is staged and not uploaded (unless the pass is cancelled before
\* the call); any other blob is passed over with no call and no error of
\* its own; the blob's flag is true after the step exactly when
\* BlobInfo.upload returned, its last upload_blob call having returned,
\* and is false when the call raised (or the pass was cancelled before
\* line 88); no other flag changes, and no step outside such an attempt
\* calls upload_blob or sets a flag.
C5_UploadIffStagedNotUploaded ==
    [][/\ (InPass("upload") /\ ~DueForUpload) =>
             /\ NewEvents = <<>>
             /\ reqs' = reqs
             /\ hier' = hier
             /\ dst' = dst
             /\ (pc' = "upload" /\ exit' = exit) \/ Cancelled
       /\ (InPass("upload") /\ DueForUpload) =>
             /\ UploadAttempted \/ Cancelled
             /\ UploadAttempted =>
                   /\ hier'[ci].blobs[bi].uploaded = (pc' = "upload")
                   /\ hier'[ci].blobs[bi].uploaded => LastNewEvent = Event("upload_blob", "ok")
                   /\ LastNewEvent # Event("upload_blob", "ok") =>
                         /\ ~hier'[ci].blobs[bi].uploaded
                         /\ pc' = "idle"
                         /\ exit' = "raise"
             /\ \A pos \in Positions(hier) :
                   pos # <<ci, bi>> => hier'[pos[1]].blobs[pos[2]] = hier[pos[1]].blobs[pos[2]]
       /\ ~InPass("upload") =>
             /\ \A k \in 1..Len(NewEvents) : NewEvents[k].op # "upload_blob"
             /\ reqs' = reqs \/ reqs' = <<>>
             /\ pc \notin {"start", "dead"} =>
                   \A pos \in Positions(hier) :
                      hier'[pos[1]].blobs[pos[2]].uploaded = hier[pos[1]].blobs[pos[2]].uploaded]_vars

\* C5's case: an upload pass has reached every blob, has uploaded one with a
\* single call and has passed over one that is not staged.
C5_Witness ==
    /\ pc = "upload"
    /\ ~AtBlob
    /\ Len(log) = 1
    /\ log[1].op = "upload_blob"
    /\ log[1].res = "ok"
    /\ \E pos \in Positions(hier) :
          /\ hier[pos[1]].blobs[pos[2]].uploaded
          /\ hier[pos[1]].blobs[pos[2]].properties.name = log[1].n
          /\ hier[pos[1]].name = log[1].c
    /\ \E pos \in Positions(hier) : hier[pos[1]].blobs[pos[2]].data_local_path = NoPath

\* The first upload_blob call of the step raised ContainerNotFound and
\* create_containers is true.
NotFoundHandled ==
    /\ InPass("upload")
    /\ create
    /\ Len(NewEvents) >= 1
    /\ NewEvents[1] = Event("upload_blob", "ContainerNotFound")

\* What follows a create_container call that returned: one more upload_blob
\* call for the same blob, which marks the blob when it returns and whose
\* failure leaves the pass.
RetriedOnce ==
    /\ Len(NewEvents) = 3
    /\ NewEvents[3].op = "upload_blob"
    /\ NewEvents[3].c = CurContainer
    /\ NewEvents[3].n = CurBlob.properties.name
    /\ reqs' = reqs \o <<CurRequest, CurRequest>>
    /\ IF NewEvents[3].res = "ok"
       THEN /\ <<CurContainer, CurBlob.properties.name>> \in DOMAIN dst'.blobs
            /\ \/ hier' = SetUploaded(hier, ci, bi) /\ pc' = "upload"
               \/ hier' = hier /\ pc' = "idle" /\ exit' = "raise"
       ELSE /\ hier' = hier
            /\ pc' = "idle"
            /\ exit' = "raise"

\* The except block is left by a cancellation after n calls of the step,
\* with the one request of the first upload_blob call and no mark.
HandlerCancelled(n) ==
    /\ Len(NewEvents) = n
    /\ reqs' = Append(reqs, CurRequest)
    /\ hier' = hier
    /\ dst'.blobs = dst.blobs
    /\ pc' = "idle"
    /\ exit' = "raise"

\* C6 as claimed: with create_containers true, an upload that raises
\* ContainerNotFound is followed by exactly one create_container call for
\* the container and then by exactly one retry of the upload (a
\* cancellation of the pass between the calls left aside).
C6_CreateThenRetryOnce ==
    [][NotFoundHandled =>
          \/ HandlerCancelled(1) /\ dst' = dst
          \/ /\ Len(NewEvents) >= 2
             /\ NewEvents[2].op = "create_container"
             /\ NewEvents[2].c = CurContainer
             /\ \/ RetriedOnce
                \/ NewEvents[2].res = "ok" /\ HandlerCancelled(2)]_vars

\* C6 as amended: unless the pass is cancelled first, exactly one
\* create_container call follows; when it returns, the upload is retried
\* exactly once unless the pass is cancelled first (a retry that returns
\* marks the blob unless the pass is cancelled before line 88, a retry
\* that raises leaves the pass with no further call); when it raises, the
\* pass is left with no retry and the blob not marked.  No step makes more
\* than one create_container call or more than two upload_blob calls.
C6_CreateThenRetryIfCreated ==
    [][NotFoundHandled =>
          \/ HandlerCancelled(1) /\ dst' = dst
          \/ /\ Len(NewEvents) >= 2
             /\ NewEvents[2].op = "create_container"
             /\ NewEvents[2].c = CurContainer
             /\ IF NewEvents[2].res = "ok"
                THEN /\ CurContainer \in dst'.containers \/ NewEvents[Len(NewEvents)].res = "ContainerNotFound"
                     /\ RetriedOnce \/ HandlerCancelled(2)
                ELSE HandlerCancelled(2)]_vars

\* C6's case: the container was missing, was created, and the retry
\* uploaded the blob.
C6_Witness ==
    /\ pc = "upload"
    /\ create
    /\ Len(log) >= 3
    /\ log[Len(log) - 2].res = "ContainerNotFound"
    /\ log[Len(log) - 1] = [log[Len(log)] EXCEPT !.op = "create_container"]
    /\ log[Len(log)].op = "upload_blob"
    /\ log[Len(log)].res = "ok"
    /\ \E pos \in Positions(hier) :
          /\ hier[pos[1]].blobs[pos[2]].uploaded
          /\ hier[pos[1]].blobs[pos[2]].properties.name = log[Len(log)].n
          /\ <<log[Len(log)].c, log[Len(log)].n>> \in DOMAIN dst.blobs

\* C7: an upload that raises anything but a handled ContainerNotFound
\* leaves the pass at once: no create_container call, no further call, the
\* Hierarchy in memory as it was (the failing blob not marked, the blobs
\* uploaded before still marked), and nothing is called outside a pass.
C7_OtherFailurePropagates ==
    [][/\ (/\ InPass("upload")
           /\ Len(NewEvents) >= 1
           /\ NewEvents[1].op = "upload_blob"
           /\ NewEvents[1].res # "ok"
           /\ ~(NewEvents[1].res = "ContainerNotFound" /\ create)) =>
             /\ Len(NewEvents) = 1
             /\ dst'.containers = dst.containers
             /\ hier' = hier
             /\ pc' = "idle"
             /\ exit' = "raise"
       /\ pc = "idle" => (log' = log \/ log' = <<>>)]_vars

\* C7's case: a pass has uploaded one blob, the upload of the next one has
\* raised, and a third blob that is due was not reached.
C7_Witness ==
    /\ pc = "idle"
    /\ exit = "raise"
    /\ Len(log) = 2
    /\ log[1].op = "upload_blob"
    /\ log[1].res = "ok"
    /\ log[2].op = "upload_blob"
    /\ log[2].res \in {"error", "BlobAlreadyExists", "ContainerNotFound"}
    /\ \E pos \in Positions(hier) :
          /\ hier[pos[1]].blobs[pos[2]].uploaded
          /\ hier[pos[1]].blobs[pos[2]].properties.name = log[1].n
    /\ Cardinality({pos \in Positions(hier) :
                       /\ hier[pos[1]].blobs[pos[2]].data_local_path # NoPath
                       /\ ~hier[pos[1]].blobs[pos[2]].uploaded}) = 2

\* C8 as claimed: over every step of a Hierarchy's life, the save/load
\* round-trips into a later process included (a new enumeration begins
\* the life of another Hierarchy), a path that is set stays as it is and
\* an uploaded flag that is true stays true.
C8_StatusNeverReset ==
    [][(~Enumerates /\ Snapshot(hier') = Snapshot(hier)) => \A pos \in Positions(hier) :
          LET old == hier[pos[1]].blobs[pos[2]]
              new == hier'[pos[1]].blobs[pos[2]]
          IN  /\ old.data_local_path # NoPath => new.data_local_path = old.data_local_path
              /\ old.uploaded => new.uploaded]_vars

\* C8 as amended: over every step of one process an uploaded flag that
\* is true stays true and a path that is set stays as it is;
\* open_hierarchy_local in a later process finds the paths the last
\* completed save recorded, and may find a flag false again.
C8_StatusKeptWithinProcess ==
    [][/\ pc \notin {"start", "dead"} =>
             \A pos \in Positions(hier) :
                LET old == hier[pos[1]].blobs[pos[2]]
                    new == hier'[pos[1]].blobs[pos[2]]
                IN  /\ old.data_local_path # NoPath => new.data_local_path = old.data_local_path
                    /\ old.uploaded => new.uploaded
       /\ SaveCompleted =>
             /\ Paths(open_hierarchy_local(root))' = Paths(hier)
             /\ Flags(open_hierarchy_local(root))' = Flags(hier)
       /\ Loads =>
             \E r \in roots : CanLoad(r) /\ hier' = open_hierarchy_local(r)]_vars

\* C8's case: a later process has loaded the checkpoint; a blob the ended
\* process had uploaded is at the destination, staged, and not marked.
C8_Witness ==
    /\ loaded
    /\ pc = "idle"
    /\ log = <<>>
    /\ exit = "none"
    /\ \E pos \in Positions(hier) :
          LET blob == hier[pos[1]].blobs[pos[2]]
          IN  /\ blob.data_local_path # NoPath
              /\ ~blob.uploaded
              /\ <<hier[pos[1]].name, blob.properties.name>> \in DOMAIN dst.blobs

\* The upload_blob requests the step has issued.
NewRequests == SubSeq(reqs', Len(reqs) + 1, Len(reqs'))

\* The object of the source account that `properties` lists in container c.
SourceObject(c, properties) ==
    [content |-> [k \in 1..properties.size |-> <<c, properties.name, k>>],
     blob_type |-> properties.blob_type,
     metadata |-> properties.metadata,
     content_settings |-> properties.content_settings]

\* C9: every upload_blob request carries the record's blob kind, metadata
\* and content settings and the byte length of line 84, so that after
\* download then upload every object of the destination has the size S, the
\* metadata M and the content type T of the source object of its name.
C9_Passthrough ==
    [][/\ InPass("upload") =>
             \A k \in 1..Len(NewRequests) :
                /\ NewRequests[k].name = CurBlob.properties.name
                /\ NewRequests[k].blob_type = CurBlob.properties.blob_type
                /\ NewRequests[k].metadata = CurBlob.properties.metadata
                /\ NewRequests[k].content_settings = CurBlob.properties.content_settings
                /\ NewRequests[k].length = LengthArg(CurBlob.properties.size)
       /\ \A id \in DOMAIN dst'.blobs :
             \E i \in 1..Len(source) : \E j \in 1..Len(source[i].blobs) :
                /\ source[i].name = id[1]
                /\ source[i].blobs[j].name = id[2]
                /\ Len(dst'.blobs[id].content) = source[i].blobs[j].size
                /\ dst'.blobs[id].metadata = source[i].blobs[j].metadata
                /\ dst'.blobs[id].content_settings = source[i].blobs[j].content_settings]_vars

\* The Hierarchy holds the listed blob b of the i-th container.
Holds(i, b) == \E k \in 1..Len(hier[i].blobs) : hier[i].blobs[k].properties = b

\* C10: get_hierarchy returns the listed containers, and of each the listed
\* blobs that are not deleted and have a size above zero or a content
\* hash, and nothing else; no container listed, no container returned.
C10_EnumeratorFilter ==
    pc = "idle" =>
       /\ Len(hier) = Len(source)
       /\ source = <<>> => hier = <<>>
       /\ \A i \in 1..Len(source) :
             /\ hier[i].name = source[i].name
             /\ \A j \in 1..Len(source[i].blobs) :
                   LET b == source[i].blobs[j]
                   IN  Holds(i, b) <=>
                          (b.deleted = FALSE
                             /\ (b.size > 0 \/ b.content_settings.content_md5 # None))
             /\ \A k \in 1..Len(hier[i].blobs) :
                   \E j \in 1..Len(source[i].blobs) :
                      hier[i].blobs[k].properties = source[i].blobs[j]

\* C10's case: a container lists a zero-length blob with a hash, a
\* zero-length blob without one and a deleted blob; the Hierarchy holds the
\* first alone.
C10_Witness ==
    /\ pc = "idle"
    /\ \E i \in 1..Len(source) :
          /\ \E j \in 1..Len(source[i].blobs) :
                LET b == source[i].blobs[j]
                IN  ~b.deleted /\ b.size = 0 /\ b.content_settings.content_md5 # None
                    /\ Holds(i, b)
          /\ \E j \in 1..Len(source[i].blobs) :
                LET b == source[i].blobs[j]
                IN  ~b.deleted /\ b.size = 0 /\ b.content_settings.content_md5 = None
                    /\ ~Holds(i, b)
          /\ \E j \in 1..Len(source[i].blobs) :
                LET b == source[i].blobs[j]
                IN  b.deleted /\ b.size > 0 /\ ~Holds(i, b)
          /\ Len(hier[i].blobs) = 1

\* Every BlobInfo of h has a path.
AllStaged(h) ==
    \A pos \in Positions(h) : h[pos[1]].blobs[pos[2]].data_local_path # NoPath

\* A checkpoint under root r loads, and to a Hierarchy that is all staged.
CheckpointAllStaged(r) ==
    /\ CheckpointPath(r) \in DOMAIN files
    /\ Loadable(files[CheckpointPath(r)])
    /\ AllStaged(PickleLoad(files[CheckpointPath(r)]))

\* C11: a download pass that returns leaves every blob staged, in memory
\* and in the checkpoint; that stays so in the process, in the checkpoints
\* the process saves and over its end, so a process that loads the
\* checkpoint holds every blob staged; and a download pass over a Hierarchy that is all staged calls
\* download_blob for no blob, writes no blob file and changes no status.
C11_DownloaderIdempotent ==
    [][/\ (pc = "finally" /\ exit' = "return") =>
             /\ AllStaged(hier')
             /\ CheckpointAllStaged(root)'
       /\ (pc \notin {"start", "dead"} /\ AllStaged(hier)) => AllStaged(hier')
       /\ \A r \in roots :
             (/\ CheckpointAllStaged(r)
              /\ pc \in {"dead"} \/ AllStaged(hier)
              /\ ~Enumerates
              /\ Loadable(files'[CheckpointPath(r)])) =>
                CheckpointAllStaged(r)'
       /\ Loads =>
             \E r \in roots : CanLoad(r) /\ hier' = PickleLoad(files[CheckpointPath(r)])
       /\ (pc \in {"download", "finally"} /\ AllStaged(hier)) =>
             /\ \A k \in 1..Len(NewEvents) : NewEvents[k].op # "download_blob"
             /\ hier' = hier
             /\ \A path \in DOMAIN files :
                   path # CheckpointPath(root) => files'[path] = files[path]
             /\ DOMAIN files' \subseteq DOMAIN files \cup {CheckpointPath(root)}
             /\ pc' \in {"download", "finally", "idle"}]_vars

\* C11's case: a process that loaded the checkpoint of a completed pass has
\* run a second pass to its end, over two blobs or more, with no call but
\* the save.
C11_Witness ==
    /\ loaded
    /\ pc = "idle"
    /\ exit = "return"
    /\ log = <<PassEvent("pickle.dump", "ok")>>
    /\ Cardinality(Positions(hier)) >= 2
    /\ AllStaged(hier)

\* C12: every Hierarchy a step leaves a process with, with any mix of staged
\* and uploaded blobs, is returned by pickle.load of its pickle.dump, equal in
\* every container, blob, property and status field; a save that runs to
\* its end replaces whatever checkpoint there was by the dump of the
\* Hierarchy in memory, and open_hierarchy_local returns what the file
\* holds.
C12_CheckpointFidelity ==
    [][/\ hier' # hier =>
             /\ Loadable(PickleDump(hier'))
             /\ PickleLoad(PickleDump(hier')) = hier'
       /\ SaveCompleted =>
             /\ files' = WriteFile(files, CheckpointPath(root), PickleDump(hier))
             /\ CanLoad(root)'
             /\ open_hierarchy_local(root)' = hier
             /\ hier' = hier
       /\ Loads =>
             \E r \in roots : /\ CanLoad(r)
                              /\ hier' = open_hierarchy_local(r)
                              /\ PickleDump(hier') = files[CheckpointPath(r)]]_vars

\* C12's case: a process that loaded a checkpoint has saved over it a
\* Hierarchy with a blob staged and uploaded, a blob staged and not
\* uploaded and a blob not staged, and the file loads to that Hierarchy.
C12_Witness ==
    /\ loaded
    /\ pc = "idle"
    /\ Len(log) >= 1
    /\ log[Len(log)] = PassEvent("pickle.dump", "ok")
    /\ CanLoad(root)
    /\ open_hierarchy_local(root) = hier
    /\ \E pos \in Positions(hier) :
          hier[pos[1]].blobs[pos[2]].data_local_path # NoPath /\ hier[pos[1]].blobs[pos[2]].uploaded
    /\ \E pos \in Positions(hier) :
          hier[pos[1]].blobs[pos[2]].data_local_path # NoPath /\ ~hier[pos[1]].blobs[pos[2]].uploaded
    /\ \E pos \in Positions(hier) : hier[pos[1]].blobs[pos[2]].data_local_path = NoPath

\* The blob that a logged call names is not marked uploaded in the
\* checkpoint under root r, if there is one that loads.
UnmarkedInCheckpoint(r, event) ==
    CanLoad(r) =>
       \A pos \in Positions(hier) :
          (hier[pos[1]].name = event.c /\ hier[pos[1]].blobs[pos[2]].properties.name = event.n) =>
             /\ pos \in Positions(open_hierarchy_local(r))
             /\ open_hierarchy_local(r)[pos[1]].blobs[pos[2]].properties
                   = hier[pos[1]].blobs[pos[2]].properties
             /\ open_hierarchy_local(r)[pos[1]].blobs[pos[2]].uploaded = FALSE

\* Every blob the running or last pass has marked uploaded is not marked
\* in any checkpoint that loads.
MarksOnlyInMemory ==
    \A k \in 1..Len(log) :
       (log[k].op = "upload_blob" /\ log[k].res = "ok") =>
          \A r \in roots : UnmarkedInCheckpoint(r, log[k])

\* C13: no step of upload_blobs, on any way out of it (the loops end, a
\* call raises, the client cannot be created), writes a file or makes a
\* directory; so for every blob the running or last pass has marked
\* uploaded, a checkpoint that loads shows the blob not uploaded.
C13_UploaderNeverSaves ==
    [][/\ (pc = "upload" \/ pc' = "upload" \/ (pc = "idle" /\ pc' = "idle")) =>
             /\ files' = files
             /\ dirs' = dirs
       /\ MarksOnlyInMemory']_vars

\* C13's case: an upload pass has marked a blob and was then left by an
\* exception; the checkpoint loads and shows the blob staged, not uploaded.
C13_Witness ==
    /\ pc = "idle"
    /\ exit = "raise"
    /\ Len(log) >= 2
    /\ log[1].op = "upload_blob"
    /\ log[1].res = "ok"
    /\ CanLoad(root)
    /\ \E pos \in Positions(hier) :
          /\ hier[pos[1]].name = log[1].c
          /\ hier[pos[1]].blobs[pos[2]].properties.name = log[1].n
          /\ hier[pos[1]].blobs[pos[2]].uploaded
          /\ open_hierarchy_local(root)[pos[1]].blobs[pos[2]].data_local_path # NoPath
          /\ ~open_hierarchy_local(root)[pos[1]].blobs[pos[2]].uploaded

\* The blob the upload pass stands at is at the destination already.
AtDestination == <<CurContainer, CurBlob.properties.name>> \in DOMAIN dst.blobs

\* C14: an upload pass that reaches a blob which is staged, not marked and
\* already at the destination (the mark was lost with the process that
\* uploaded it) uploads it again as an overwrite: the destination does not
\* refuse the blob because it exists, and a call that returns leaves the
\* pass going on with the blob marked and the destination object equal to
\* the source object.
C14_ReuploadOverwrites ==
    [][(InPass("upload") /\ DueForUpload /\ AtDestination) =>
          /\ \A k \in 1..Len(NewEvents) : NewEvents[k].res # "BlobAlreadyExists"
          /\ (Len(NewEvents) >= 1 /\ LastNewEvent.res = "ok") =>
                /\ pc' = "upload"
                /\ hier'[ci].blobs[bi].uploaded
                /\ dst'.blobs[<<CurContainer, CurBlob.properties.name>>]
                      = SourceObject(CurContainer, CurBlob.properties)]_vars

\* A step in which a store call, a file-system call or the creation of a
\* client fails for a reason of its own, or the pass is cancelled: every
\* failure but the deterministic answers ContainerNotFound for a missing
\* container, BlobAlreadyExists, and FileNotFoundError for a missing file
\* or directory.
FaultStep ==
    \/ \E k \in 1..Len(NewEvents) :
          /\ NewEvents[k].res \in {"raise", "stream", "error"}
          /\ NewEvents[k] = PassEvent("open", "raise") => root \in dirs
    \/ Len(NewEvents) = 3 /\ NewEvents[3].res = "ContainerNotFound"
    \/ pc = "idle" /\ pc' = "finally"
    \/ pc = "idle" /\ pc' = "idle" /\ exit' = "raise"
    \/ pc = "download" /\ pc' = "finally" /\ exc' /\ NewEvents = <<>>
    \/ pc = "upload" /\ pc' = "idle" /\ exit' = "raise" /\ NewEvents = <<>>
    \/ pc = "upload" /\ pc' = "idle" /\ exit' = "raise" /\ Len(NewEvents) >= 1
          /\ LastNewEvent.res = "ok"
    \/ NotFoundHandled /\ Len(NewEvents) = 1
    \/ pc = "finally" /\ ~exc /\ exit' = "raise" /\ SaveCompleted

\* A process holds the Hierarchy with every blob staged and uploaded.
AllDone ==
    /\ pc \in {"idle", "download", "finally", "upload"}
    /\ \A pos \in Positions(hier) :
          /\ hier[pos[1]].blobs[pos[2]].data_local_path # NoPath
          /\ hier[pos[1]].blobs[pos[2]].uploaded

\* The step starts a pass; the step ends the process.
StartsDownload == pc = "idle" /\ pc' \in {"download", "finally"}

StartsUpload == pc = "idle" /\ pc' = "upload"

EndsProcess == pc = "idle" /\ pc' = "dead"

\* The last pass of the process was download_blobs: its last call is the
\* save.
AfterDownload ==
    /\ Len(log) >= 1
    /\ log[Len(log)].c = None
    /\ log[Len(log)].op \in {"open", "pickle.dump"}

\* The step belongs to a run of the pipeline from the latest checkpoint:
\* the Hierarchy is not enumerated again; download_blobs is the first pass
\* of its process; upload_blobs follows a download_blobs that returned, with
\* create_containers=True; and the process ends after a pass that raised,
\* or after upload_blobs.
PipelineStep ==
    /\ ~Enumerates
    /\ StartsDownload => exit = "none"
    /\ StartsUpload => exit = "return" /\ AfterDownload /\ create'
    /\ EndsProcess => exit = "raise" \/ (exit = "return" /\ ~AfterDownload)

\* C15: if from some time on no call fails for a reason of its own and no
\* pass is cancelled, and from some time on every step is a step of the
\* pipeline run from the latest checkpoint, and the pipeline keeps being
\* run (again and again a checkpoint is loaded, a Downloader pass and an
\* Uploader pass are started), then a state is reached in which every blob
\* is staged and uploaded.
C15_EventualCompletion ==
    (/\ <>[][~FaultStep]_vars
     /\ <>[][PipelineStep]_vars
     /\ []<><<Loads>>_vars
     /\ []<><<StartsDownload>>_vars
     /\ []<><<StartsUpload>>_vars) => <>AllDone

\* The step is a download that fails at the blob the pass stands at.
DownloadFails ==
    InPass("download") /\ CurBlob.data_local_path = NoPath /\ pc' = "finally" /\ exc'

\* The logged call is a download_blob call that failed.
FailedDownload(event) == event.op = "download_blob" /\ event.res # "ok"

\* C16: a download that fails at blob X is the pass's last call to the
\* source: the blob is not tried again and no blob after it is tried; the
\* step leaves the Hierarchy in memory as it was, X without a path and the
\* blobs staged before with theirs; the pass then runs its finally block
\* and is left by the exception, never by a return; and the checkpoint that
\* the finally block writes loads to that Hierarchy.
C16_DownloadFailureAborts ==
    [][/\ DownloadFails =>
             /\ hier' = hier
             /\ hier'[ci].blobs[bi].data_local_path = NoPath
             /\ Len(NewEvents) <= 1
             /\ \A k \in 1..Len(NewEvents) :
                   FailedDownload(NewEvents[k]) /\ NewEvents[k].n = CurBlob.properties.name
       /\ (\E k \in 1..Len(log) : FailedDownload(log[k])) =>
             /\ pc \in {"finally", "idle"}
             /\ \A k \in 1..Len(NewEvents) : NewEvents[k].op # "download_blob"
       /\ (pc = "finally" /\ exc) =>
             /\ pc' = "idle"
             /\ exit' = "raise"
             /\ hier' = hier
             /\ SaveCompleted =>
                   CanLoad(root)' /\ open_hierarchy_local(root)' = hier
       /\ (pc = "finally" /\ exit' = "return") => ~exc]_vars

\* C16's case: a pass found one blob staged by an earlier pass, failed at
\* the next blob X and was left by the exception; X and the blob after it
\* have no path, no call was made after X's, and the checkpoint written on
\* the way out loads to the Hierarchy in memory.
C16_Witness ==
    /\ pc = "idle"
    /\ exit = "raise"
    /\ Len(log) = 2
    /\ FailedDownload(log[1])
    /\ log[2] = PassEvent("pickle.dump", "ok")
    /\ CanLoad(root)
    /\ open_hierarchy_local(root) = hier
    /\ Len(hier) >= 1
    /\ Len(hier[1].blobs) = 3
    /\ hier[1].blobs[1].data_local_path # NoPath
    /\ hier[1].blobs[2].data_local_path = NoPath
    /\ hier[1].blobs[2].properties.name = log[1].n
    /\ hier[1].blobs[3].data_local_path = NoPath

\* In Hierarchy h, every blob marked uploaded has a path.
UploadedAreStaged(h) ==
    \A pos \in Positions(h) :
       h[pos[1]].blobs[pos[2]].uploaded => h[pos[1]].blobs[pos[2]].data_local_path # NoPath

\* Every upload_blob call the running or last pass has made names a blob
\* of the Hierarchy whose path is set.
UploadCallsAreStaged ==
    \A k \in 1..Len(log) :
       log[k].op = "upload_blob" =>
          \E pos \in Positions(hier) :
             /\ hier[pos[1]].name = log[k].c
             /\ hier[pos[1]].blobs[pos[2]].properties.name = log[k].n
             /\ hier[pos[1]].blobs[pos[2]].data_local_path # NoPath

StagedCount(h) ==
    Cardinality({pos \in Positions(h) : h[pos[1]].blobs[pos[2]].data_local_path # NoPath})

\* C18: no step, a failure or cancellation while the checkpoint is being
\* written included, turns a checkpoint that loads into one that does not
\* load or that records fewer staged blobs.
C18_DurableProgress ==
    [][\A r \in roots :
          CanLoad(r) =>
             /\ CanLoad(r)'
             /\ StagedCount(open_hierarchy_local(r))' >= StagedCount(open_hierarchy_local(r))]_vars

\* C19: once enumerated, the Hierarchy keeps its containers, its blobs and
\* their properties over every step of its process, whatever is added to
\* the source; a completed save records them as they are and a load in a
\* later process returns what the checkpoint records; the steps of
\* download_blobs change no flag and the steps of upload_blobs change no
\* path; a change of the source changes nothing else; every call to a
\* store names a blob of the Hierarchy, and so does every blob a step
\* adds to the destination.
C19_SnapshotFrame ==
    [][/\ Enumerates => hier' = get_hierarchy(source)
       /\ Loads => \E r \in roots : CanLoad(r) /\ Snapshot(hier') = Snapshot(open_hierarchy_local(r))
       /\ SaveCompleted => Snapshot(open_hierarchy_local(root))' = Snapshot(hier)
       /\ ~Enumerates =>
             /\ ~Loads => Snapshot(hier') = Snapshot(hier)
             /\ (pc \in {"download", "finally"} \/ pc' \in {"download", "finally"}) =>
                   Flags(hier') = Flags(hier)
             /\ (pc = "upload" \/ pc' = "upload") => Paths(hier') = Paths(hier)
             /\ source' # source =>
                   /\ hier' = hier
                   /\ files' = files
                   /\ dst' = dst
                   /\ log' = log
             /\ \A k \in 1..Len(NewEvents) :
                   NewEvents[k].c # None => <<NewEvents[k].c, NewEvents[k].n>> \in Identities(hier)
             /\ \A id \in DOMAIN dst'.blobs :
                   id \in DOMAIN dst.blobs \/ id \in Identities(hier)]_vars

\* C19's case: the source lists a blob that the Hierarchy does not hold; an
\* upload pass of a later process has run to its end and the destination
\* holds every blob of the Hierarchy and not the added one.
C19_Witness ==
    /\ loaded
    /\ pc = "idle"
    /\ exit = "return"
    /\ Len(log) >= 1
    /\ log[1].op = "upload_blob"
    /\ Identities(hier) # {}
    /\ DOMAIN dst.blobs = Identities(hier)
    /\ \E i \in 1..Len(source) : \E j \in 1..Len(source[i].blobs) :
          /\ IncludeBlob(source[i].blobs[j])
          /\ <<source[i].name, source[i].blobs[j].name>> \notin Identities(hier)
          /\ PathJoin(PathJoin(root, source[i].name), source[i].blobs[j].name) \notin DOMAIN files

\* C20: at every blob an upload pass uploads, the file that BlobInfo.upload
\* opens is the file at the blob's data_local_path: the open does not fail
\* for a missing file (the recorded file exists), and every upload_blob
\* request carries the content of the recorded file, whatever staging root
\* the pass was given.
C20_UploadsRecordedFile ==
    [][(InPass("upload") /\ DueForUpload) =>
          /\ FilePath = CurBlob.data_local_path
          /\ \A k \in 1..Len(NewEvents) : NewEvents[k] # Event("open", "FileNotFoundError")
          /\ \A k \in 1..Len(NewRequests) :
                NewRequests[k].data = files[CurBlob.data_local_path]]_vars

=============================================================================
